---- MODULE Spec2Model ----
(***************************************************************************)
(* State-machine model of the research server:                             *)
(*   backend/server.py                     websocket_endpoint              *)
(*   gpt_researcher/utils/websocket_manager.py  WebSocketManager, run_agent*)
(*   gpt_researcher/master/agent.py        GPTResearcher                   *)
(* One client connection (websocket ws) is modelled.  The connection       *)
(* handler, the gather tasks created by asyncio.gather and the sender task *)
(* are asyncio tasks of one event loop: a task runs until it awaits        *)
(* something that is not ready (a collaborator's reply, the gather, a      *)
(* write on the websocket, the queue's next message); only then does       *)
(* another task run.  The Session Channel send (stream_output) does not    *)
(* suspend its caller.                                                     *)
(***************************************************************************)
EXTENDS Integers, Sequences, FiniteSets, TLC

\* ---------------------------------------------------------------- bounds
\* Largest number of client messages one connection handler receives.
MaxCommands == 2
\* Largest number of messages sent on one connection of the channel model.
MaxSends == 3
\* Largest number of disconnect calls per connection of the channel model.
MaxDisconnects == 2

\* The websocket of the modelled connection.
ws == "ws"
\* Numbers of sub-queries get_sub_queries can return.
SubQueryCounts == {0, 1}
\* URLs the search retriever and the client can name.
URLS == {"u1", "u2"}
\* Result lists retriever.search can return (hrefs, repeats allowed).
SearchResults == {<<>>, <<"u1">>, <<"u1", "u2">>, <<"u2", "u1">>, <<"u1", "u1">>}
\* source_urls payloads of a start command: <<>> is an absent / empty list.
SeedLists == {<<>>, <<"u1", "u1">>, <<"u1", "u2">>}
\* prompt_token_limit payloads (10000 is the default of server.py line 51).
PromptTokenLimits == {512, 10000}
\* total_words payloads (1000 is the default of server.py line 52).
TotalWordsValues == {1000, 7935}
\* Messages the producers of the channel model send.
ChannelMessages == {"m1", "m2"}

\* ------------------------------------------------------ program constants
buffer_tokens == 512
smart_token_max == 16385
max_results == 4

\* Gather tasks: 0 is get_context_by_urls running inside the handler task,
\* the others are the process_sub_query tasks of asyncio.gather.
MostSubQueries == CHOOSE n \in SubQueryCounts : \A m \in SubQueryCounts : m <= n
Tasks == 0 .. (MostSubQueries + 1)
SubTasks == 1 .. (MostSubQueries + 1)
\* The original query is 0, the generated sub-queries are 1..n.
NoBlock == [query |-> -1, w |-> 0]

VARIABLES
    active_connections,  \* WebSocketManager.active_connections (a list)
    sender_tasks,        \* keys of WebSocketManager.sender_tasks
    message_queues,      \* WebSocketManager.message_queues: ws -> queue content
    sender,              \* state of the start_sender task created for ws
    sending,             \* <<m>> while the sender task is inside send_text(m)
    client,              \* "open" | "gone": the peer of ws
    hpc,                 \* position of the connection handler task
    error,               \* exception that ended the run / the handler
    nrecv,               \* client messages received so far
    cfg,                 \* researcher.cfg: prompt_token_limit, total_words
    source_urls,         \* researcher.source_urls
    visited_urls,        \* researcher.visited_urls
    context,             \* researcher.context
    sub_queries,         \* the list handed to asyncio.gather
    tpc,                 \* position of each gather task
    tres,                \* url_set_input of the task's get_new_urls call
    tidx,                \* index of the url the task's loop is at
    tnew,                \* new_urls of the task's get_new_urls call
    tpages,              \* number of pages scrape_urls gave the task
    tblk,                \* the content the task returned
    done_order,          \* gather tasks in the order they completed
    last_write,          \* the latest write on the websocket: <<writer, message>>
    run_result,          \* what run_agent gave its caller in the latest run
    handed,              \* per url: how often a get_new_urls call of this run returned it
    requested,           \* per task: urls in the url_set_input of its get_new_urls call
    evictions,           \* blocks the budgeting loop of this run has popped
    milestones,          \* the run's completed steps, in the order they happened
    scraped_before,      \* urls get_new_urls returned in earlier runs of the connection
    emitted,             \* per task: the messages it has sent, in order
    enqueued,            \* channel model: messages put on the connection's queue
    written,             \* channel model: messages the sender task has written
    disconnects,         \* channel model: disconnect calls since the latest connect
    dropped              \* channel model: sends of the connection that were no-ops

vars == <<active_connections, sender_tasks, message_queues, sender, sending, client, hpc,
          error, nrecv, cfg, source_urls, visited_urls, context, sub_queries,
          tpc, tres, tidx, tnew, tpages, tblk, done_order, last_write, run_result,
          handed, requested, evictions, milestones, scraped_before, emitted,
          enqueued, written, disconnects, dropped>>

mgr == <<active_connections, sender_tasks, message_queues, sender, sending>>
researcher == <<cfg, source_urls, visited_urls, context, sub_queries>>
gathers == <<tpc, tres, tidx, tnew, tpages, tblk, done_order, emitted>>
history == <<handed, requested, evictions, milestones, scraped_before>>
\* The history of the channel is recorded by the channel model (SpecChannel)
\* only; the specifications of the whole program leave it empty.
channel_log == <<enqueued, written, disconnects, dropped>>

\* ---------------------------------------------------------------- helpers
Min(a, b) == IF a <= b THEN a ELSE b

InSeq(x, s) == \E i \in 1 .. Len(s) : s[i] = x

RemoveAt(s, i) == [j \in 1 .. (Len(s) - 1) |-> IF j < i THEN s[j] ELSE s[j + 1]]

\* list.remove(x): drops the first occurrence of x.
RemoveFirst(s, x) ==
    IF InSeq(x, s)
    THEN RemoveAt(s, CHOOSE i \in 1 .. Len(s) : s[i] = x /\ \A j \in 1 .. (i - 1) : s[j] # x)
    ELSE s

RECURSIVE SumW(_)
SumW(s) == IF s = <<>> THEN 0 ELSE (1 + Head(s).w) + SumW(Tail(s))

\* count_tokens(str(context)): "[]" is one token; otherwise the two brackets,
\* every item (its quotes plus one token per excerpt) and the separators.
count_tokens(ctx) ==
    IF ctx = <<>> THEN 1 ELSE 2 + SumW(ctx) + (Len(ctx) - 1)

\* A message of stream_output / send_json, recorded by its type: "logs",
\* "usage" or "path" (its text is not modelled).
Msg(type) == <<type>>

\* ------------------------------------------------------- WebSocketManager
Init ==
    /\ active_connections = <<>>
    /\ sender_tasks = {}
    /\ message_queues = <<>>
    /\ sender = "none"
    /\ sending = <<>>
    /\ client = "open"
    /\ hpc = "connect"
    /\ error = "none"
    /\ nrecv = 0
    /\ cfg = [prompt_token_limit |-> 10000, total_words |-> 1000]
    /\ source_urls = <<>>
    /\ visited_urls = {}
    /\ context = <<>>
    /\ sub_queries = <<>>
    /\ tpc = [t \in Tasks |-> "none"]
    /\ tres = [t \in Tasks |-> <<>>]
    /\ tidx = [t \in Tasks |-> 0]
    /\ tnew = [t \in Tasks |-> <<>>]
    /\ tpages = [t \in Tasks |-> 0]
    /\ tblk = [t \in Tasks |-> NoBlock]
    /\ done_order = <<>>
    /\ last_write = <<>>
    /\ run_result = "none"
    /\ handed = [u \in URLS |-> 0]
    /\ requested = [t \in Tasks |-> {}]
    /\ evictions = 0
    /\ milestones = <<>>
    /\ scraped_before = {}
    /\ emitted = [t \in Tasks |-> <<>>]
    /\ enqueued = <<>>
    /\ written = <<>>
    /\ disconnects = 0
    /\ dropped = 0

\* Mutant of stream_output: the message is queued whether or not the channel
\* is open.
stream_outputUnchecked(mq, msg) ==
    IF ws \in DOMAIN mq
    THEN [mq EXCEPT ![ws] = Append(@, msg)]
    ELSE (ws :> <<msg>>)

\* Session channel send, as stream_output(type, output, websocket) uses it:
\* enqueue for the delivery task; a no-op once the channel is closed or the
\* delivery task has ended.  It never raises and never suspends its caller:
\* the caller goes on with its next statement in the same step of the loop.
stream_output(mq, msg) ==
    IF ws \in DOMAIN mq /\ sender = "running"
    THEN [mq EXCEPT ![ws] = Append(@, msg)]
    ELSE mq

\* The handler task is suspended: in accept or receive_text, in the await of
\* choose_agent, get_sub_queries, asyncio.gather or generate_report, in a
\* send_json, or it has ended.  At the other positions it is between two
\* statements that do not suspend it.
HandlerYielded ==
    /\ hpc \notin {"init", "by_urls", "sub_queries", "budget"}
    /\ ~(hpc = "get_context" /\ source_urls # <<>>)

\* Gather task t has started process_sub_query and has not yet returned or
\* raised: search, scrape_urls and get_context are plain calls and the send
\* does not suspend, so t keeps the loop from its first step to its last.
TaskBusy(t) == tpc[t] \in {"search", "add", "scrape", "rank", "return"}

\* No task is between two of its statements: the event loop picks the next
\* task that is ready.
LoopFree ==
    /\ HandlerYielded
    /\ \A t \in SubTasks : ~TaskBusy(t)

\* Mutant of connect: ws is appended without a queue of its own being made.
connectWithoutQueue ==
    /\ active_connections' = Append(active_connections, ws)
    /\ message_queues' = message_queues
    /\ sender_tasks' = sender_tasks \cup {ws}
    /\ sender' = "running"
    /\ sending' = <<>>

\* WebSocketManager.connect: accept, register, create the sender task.
connect ==
    /\ active_connections' = Append(active_connections, ws)
    /\ message_queues' = (ws :> <<>>)
    /\ sender_tasks' = sender_tasks \cup {ws}
    /\ sender' = "running"
    /\ sending' = <<>>

\* Mutant of disconnect: the sender task is not cancelled and the queue stays.
disconnectWithoutCancel ==
    IF InSeq(ws, active_connections)
    THEN /\ active_connections' = RemoveFirst(active_connections, ws)
         /\ sender_tasks' = sender_tasks \ {ws}
         /\ UNCHANGED <<sender, sending, message_queues>>
    ELSE UNCHANGED mgr

\* WebSocketManager.disconnect: a no-op unless ws is an active connection;
\* otherwise unregister, cancel the sender task, put None on the queue and
\* delete both dictionary entries (the queue and the None on it are dropped).
\* A task cancelled while it waits on the queue ends cancelled; cancelled
\* inside send_text, the bare except of line 28 takes the CancelledError and
\* the task leaves its loop: it ends normally and its message is not written.
disconnect ==
    IF InSeq(ws, active_connections)
    THEN /\ active_connections' = RemoveFirst(active_connections, ws)
         /\ sender' = IF sender = "running"
                       THEN (IF sending = <<>> THEN "cancelled" ELSE "finished")
                       ELSE sender
         /\ sending' = <<>>
         /\ sender_tasks' = sender_tasks \ {ws}
         /\ message_queues' = [w \in (DOMAIN message_queues) \ {ws} |-> message_queues[w]]
    ELSE UNCHANGED mgr

\* Mutant of start_sender: the newest message of the queue is taken first.
start_senderNewestFirst ==
    /\ sender = "running" /\ sending = <<>>
    /\ ws \in DOMAIN message_queues
    /\ message_queues[ws] # <<>>
    /\ message_queues' = [message_queues EXCEPT ![ws] = SubSeq(@, 1, Len(@) - 1)]
    /\ IF InSeq(ws, active_connections)
       THEN /\ sending' = <<message_queues[ws][Len(message_queues[ws])]>>
            /\ sender' = sender
       ELSE /\ sender' = "finished"
            /\ sending' = sending

\* start_sender lines 24-27, one turn of its loop up to the await of the
\* write: take the next message off the queue; if ws is still an active
\* connection start websocket.send_text with it, otherwise leave the loop.
start_sender ==
    /\ sender = "running" /\ sending = <<>>
    /\ ws \in DOMAIN message_queues
    /\ message_queues[ws] # <<>>
    /\ message_queues' = [message_queues EXCEPT ![ws] = Tail(@)]
    /\ IF InSeq(ws, active_connections)
       THEN /\ sending' = <<Head(message_queues[ws])>>
            /\ sender' = sender
       ELSE /\ sender' = "finished"
            /\ sending' = sending

\* start_sender lines 27-29, the await of send_text returns: the message is
\* written and the loop goes round, or the write raised (the peer is gone)
\* and the task leaves the loop.
send_text ==
    /\ sender = "running" /\ sending # <<>>
    /\ sending' = <<>>
    /\ IF client = "open"
       THEN /\ last_write' = <<"sender", sending[1]>>
            /\ sender' = sender
       ELSE /\ sender' = "finished"
            /\ last_write' = last_write

\* The sender task takes a message.
SenderStep ==
    /\ LoopFree
    /\ start_sender
    /\ UNCHANGED <<active_connections, sender_tasks, client, hpc, error, nrecv,
                   researcher, gathers, last_write, run_result>>
    /\ UNCHANGED history
    /\ UNCHANGED channel_log

\* The sender task's write completes or fails.
SenderWrite ==
    /\ LoopFree
    /\ send_text
    /\ UNCHANGED <<active_connections, sender_tasks, message_queues, client, hpc, error,
                   nrecv, researcher, gathers, run_result>>
    /\ UNCHANGED history
    /\ UNCHANGED channel_log

\* The peer closes the connection.
ClientDisconnect ==
    /\ client = "open"
    /\ hpc # "connect"
    /\ client' = "gone"
    /\ UNCHANGED <<mgr, hpc, error, nrecv, researcher, gathers, last_write, run_result>>
    /\ UNCHANGED history
    /\ UNCHANGED channel_log

\* ----------------------------------------------------- websocket_endpoint
\* server.py line 41.
Connect ==
    /\ hpc = "connect" /\ LoopFree
    /\ connect
    /\ hpc' = "receive"
    /\ UNCHANGED <<client, error, nrecv, researcher, gathers, last_write, run_result>>
    /\ UNCHANGED history
    /\ UNCHANGED channel_log

\* An exception leaves the try block of websocket_endpoint: WebSocketDisconnect
\* is caught and answered with manager.disconnect; any other exception is not
\* caught and ends the handler.
HandlerRaises(exc) ==
    /\ error' = exc
    /\ IF exc = "WebSocketDisconnect"
       THEN hpc' = "closed" /\ disconnect
       ELSE hpc' = "crashed" /\ UNCHANGED mgr

\* receive_text on a closed peer raises WebSocketDisconnect.
RecvDisconnect ==
    /\ hpc = "receive" /\ LoopFree
    /\ client = "gone"
    /\ HandlerRaises("WebSocketDisconnect")
    /\ UNCHANGED <<client, nrecv, researcher, gathers, last_write, run_result>>
    /\ UNCHANGED history
    /\ UNCHANGED channel_log

\* A text that does not start with "start": the loop goes round.
RecvOther ==
    /\ hpc = "receive" /\ LoopFree /\ client = "open" /\ nrecv < MaxCommands
    /\ nrecv' = nrecv + 1
    /\ UNCHANGED <<mgr, client, hpc, error, researcher, gathers, last_write, run_result>>
    /\ UNCHANGED history
    /\ UNCHANGED channel_log

\* "start" followed by text json.loads rejects: the error is not caught.
RecvBadJson ==
    /\ hpc = "receive" /\ LoopFree /\ client = "open" /\ nrecv < MaxCommands
    /\ nrecv' = nrecv + 1
    /\ HandlerRaises("JSONDecodeError")
    /\ UNCHANGED <<client, researcher, gathers, last_write, run_result>>
    /\ UNCHANGED history
    /\ UNCHANGED channel_log

\* "start" followed by JSON that is not an object (a number, a list, null, a
\* string): json.loads returns it and json_data.get of line 47 raises
\* AttributeError, which is not caught.
RecvNotObject ==
    /\ hpc = "receive" /\ LoopFree /\ client = "open" /\ nrecv < MaxCommands
    /\ nrecv' = nrecv + 1
    /\ HandlerRaises("AttributeError")
    /\ UNCHANGED <<client, researcher, gathers, last_write, run_result>>
    /\ UNCHANGED history
    /\ UNCHANGED channel_log

\* A start payload that is an object without task or report_type: the else
\* branch of line 62.
RecvIncomplete ==
    /\ hpc = "receive" /\ LoopFree /\ client = "open" /\ nrecv < MaxCommands
    /\ nrecv' = nrecv + 1
    /\ UNCHANGED <<mgr, client, hpc, error, researcher, gathers, last_write, run_result>>
    /\ UNCHANGED history
    /\ UNCHANGED channel_log

\* Mutant of RecvStart: the handler also reads a start command while the
\* gather of a run is in progress.
RecvStartDuringRun ==
    /\ hpc \in {"receive", "gather"} /\ client = "open" /\ nrecv < MaxCommands
    /\ nrecv' = nrecv + 1
    /\ \E s \in SeedLists, p \in PromptTokenLimits, w \in TotalWordsValues :
          /\ source_urls' = s
          /\ cfg' = [prompt_token_limit |-> p, total_words |-> w]
    /\ hpc' = "init"
    /\ UNCHANGED <<mgr, client, error, visited_urls, context, sub_queries, gathers,
                   last_write, run_result, history>>
    /\ UNCHANGED channel_log

\* A complete start command (lines 46-55): start_streaming -> run_agent is
\* called with the payload's source_urls, prompt_token_limit and total_words.
RecvStart ==
    /\ hpc = "receive" /\ LoopFree /\ client = "open" /\ nrecv < MaxCommands
    /\ nrecv' = nrecv + 1
    /\ \E s \in SeedLists, p \in PromptTokenLimits, w \in TotalWordsValues :
          /\ source_urls' = s
          /\ cfg' = [prompt_token_limit |-> p, total_words |-> w]
    /\ hpc' = "init"
    /\ UNCHANGED <<mgr, client, error, visited_urls, context, sub_queries, gathers,
                   last_write, run_result, history>>
    /\ UNCHANGED channel_log

\* run_agent lines 58-80: a new GPTResearcher (agent.py lines 41-55), about
\* to call run().
RunAgent ==
    /\ hpc = "init"
    /\ visited_urls' = {}
    /\ context' = <<>>
    /\ sub_queries' = <<>>
    /\ tpc' = [t \in Tasks |-> "none"]
    /\ tres' = [t \in Tasks |-> <<>>]
    /\ tidx' = [t \in Tasks |-> 0]
    /\ tnew' = [t \in Tasks |-> <<>>]
    /\ tpages' = [t \in Tasks |-> 0]
    /\ tblk' = [t \in Tasks |-> NoBlock]
    /\ done_order' = <<>>
    /\ run_result' = "none"
    /\ handed' = [u \in URLS |-> 0]
    /\ requested' = [t \in Tasks |-> {}]
    /\ evictions' = 0
    /\ milestones' = <<>>
    /\ scraped_before' = scraped_before \cup {u \in URLS : handed[u] > 0}
    /\ emitted' = [t \in Tasks |-> <<>>]
    /\ hpc' = "choose_agent"
    /\ UNCHANGED <<mgr, client, error, nrecv, cfg, source_urls, last_write>>
    /\ UNCHANGED channel_log

\* ---------------------------------------------------------- GPTResearcher
\* An exception leaves run_agent: its caller gets the exception, not a report.
RunRaises(exc) ==
    /\ run_result' = "raised"
    /\ HandlerRaises(exc)

\* Mutant of MarkVisited: the url is not recorded.
MarkVisitedNothing(visited, url) == visited

\* Mutant of IsNew: every url passes the test.
IsNewAlways(url, visited) == TRUE

\* agent.py line 159: the membership test of get_new_urls.
IsNew(url, visited) == url \notin visited

\* agent.py line 162: the mark of get_new_urls.
MarkVisited(visited, url) == visited \cup {url}

\* The for loop of get_new_urls from position `from` on: the position of the
\* next url that passes the test of line 159, or 0 when the loop runs out.
NextNew(res, from, visited) ==
    LET c == {j \in from .. Len(res) : IsNew(res[j], visited)}
    IN  IF c = {} THEN 0 ELSE CHOOSE j \in c : \A k \in c : j <= k

\* The for loop of get_new_urls for task t, scanning res from `from` with the
\* visited set as it is now.  A url that passes the test is announced with
\* stream_output (line 160); the send does not suspend the task, which goes
\* on to the mark of line 162 (TaskAdd) before any other task runs.  When the
\* loop runs out get_new_urls returns and the caller announces the next step
\* (line 113 / line 183); url_set_input and the loop position are locals
\* that end with the call.
Scan(t, res, from, visited) ==
    LET j == NextNew(res, from, visited)
    IN  IF j > 0
        THEN /\ tres' = [tres EXCEPT ![t] = res]
             /\ tidx' = [tidx EXCEPT ![t] = j]
             /\ tpc' = [tpc EXCEPT ![t] = "add"]
             /\ message_queues' = stream_output(message_queues, Msg("logs"))
             /\ emitted' = [emitted EXCEPT ![t] = Append(@, "adding")]
        ELSE /\ tres' = [tres EXCEPT ![t] = <<>>]
             /\ tidx' = [tidx EXCEPT ![t] = 0]
             /\ tpc' = [tpc EXCEPT ![t] = "scrape"]
             /\ message_queues' = stream_output(message_queues,
                                      Msg("logs"))
             /\ emitted' = [emitted EXCEPT ![t] = Append(@, "researching")]

\* The task is running: the handler itself for task 0, else a gather task.
Runs(t) == IF t = 0 THEN hpc = "by_urls" ELSE TRUE

\* process_sub_query line 145.
TaskStart(t) ==
    /\ tpc[t] = "start"
    /\ LoopFree
    /\ message_queues' = stream_output(message_queues, Msg("logs"))
    /\ emitted' = [emitted EXCEPT ![t] = Append(@, "running")]
    /\ tpc' = [tpc EXCEPT ![t] = "search"]
    /\ UNCHANGED <<active_connections, sender_tasks, sender, sending, client, hpc, error, nrecv,
                   researcher, tres, tidx, tnew, tpages, tblk, done_order, last_write,
                   run_result>>
    /\ UNCHANGED history
    /\ UNCHANGED channel_log

\* scrape_sites_by_query lines 177-179: the search, then get_new_urls up to
\* its first send.
TaskSearch(t) ==
    /\ tpc[t] = "search"
    /\ \E r \in SearchResults :
          /\ Scan(t, r, 1, visited_urls)
          /\ requested' = [requested EXCEPT ![t] = {r[i] : i \in 1 .. Len(r)}]
    /\ UNCHANGED <<active_connections, sender_tasks, sender, sending, client, hpc, error, nrecv,
                   researcher, tnew, tpages, tblk, done_order, last_write, run_result>>
    /\ UNCHANGED <<handed, evictions, milestones, scraped_before>>
    /\ UNCHANGED channel_log

\* retriever.search raises.
TaskSearchFail(t) ==
    /\ tpc[t] = "search"
    /\ tpc' = [tpc EXCEPT ![t] = "failed"]
    /\ UNCHANGED <<mgr, client, hpc, error, nrecv, researcher, tres, tidx, tnew, tpages,
                   tblk, done_order, emitted, last_write, run_result>>
    /\ UNCHANGED history
    /\ UNCHANGED channel_log

\* get_new_urls lines 162-163 after the send of line 160, then the loop on.
TaskAdd(t) ==
    /\ tpc[t] = "add" /\ Runs(t)
    /\ visited_urls' = MarkVisited(visited_urls, tres[t][tidx[t]])
    /\ tnew' = [tnew EXCEPT ![t] = Append(@, tres[t][tidx[t]])]
    /\ Scan(t, tres[t], tidx[t] + 1, visited_urls')
    /\ UNCHANGED <<active_connections, sender_tasks, sender, sending, client, hpc, error, nrecv,
                   cfg, source_urls, context, sub_queries, tpages, tblk,
                   done_order, last_write, run_result>>
    /\ handed' = [handed EXCEPT ![tres[t][tidx[t]]] = @ + 1]
    /\ UNCHANGED <<requested, evictions, milestones, scraped_before>>
    /\ UNCHANGED channel_log

\* scrape_urls (a url that cannot be retrieved is dropped), then
\* get_similar_content_by_query line 188.
TaskScrape(t) ==
    /\ tpc[t] = "scrape" /\ Runs(t)
    /\ \E k \in 0 .. Len(tnew[t]) : tpages' = [tpages EXCEPT ![t] = k]
    /\ tnew' = [tnew EXCEPT ![t] = <<>>]
    /\ message_queues' = stream_output(message_queues, Msg("logs"))
    /\ emitted' = [emitted EXCEPT ![t] = Append(@, "ranking")]
    /\ tpc' = [tpc EXCEPT ![t] = "rank"]
    /\ UNCHANGED <<active_connections, sender_tasks, sender, sending, client, hpc, error, nrecv,
                   researcher, tres, tidx, tblk, done_order, last_write, run_result>>
    /\ UNCHANGED history
    /\ UNCHANGED channel_log

\* The query task t works on: sub_queries[t], the original query for task 0.
QueryOf(t) == IF t = 0 THEN 0 ELSE sub_queries[t]

\* context_compressor.get_context(query, max_results=4), then for a gather
\* task the excerpt message of line 148.
TaskRank(t) ==
    /\ tpc[t] = "rank" /\ Runs(t)
    /\ tblk' = [tblk EXCEPT ![t] = [query |-> QueryOf(t), w |-> Min(tpages[t], max_results)]]
    /\ tpages' = [tpages EXCEPT ![t] = 0]
    /\ IF t = 0
       THEN /\ tpc' = [tpc EXCEPT ![t] = "done"]
            /\ UNCHANGED <<message_queues, emitted>>
       ELSE /\ tpc' = [tpc EXCEPT ![t] = "return"]
            /\ message_queues' = stream_output(message_queues, Msg("logs"))
            /\ emitted' = [emitted EXCEPT ![t] = Append(@, "excerpt")]
    /\ UNCHANGED <<active_connections, sender_tasks, sender, sending, client, hpc, error, nrecv,
                   researcher, tres, tidx, tnew, done_order, last_write, run_result>>
    /\ UNCHANGED history
    /\ UNCHANGED channel_log

\* The ranker raises.
TaskRankFail(t) ==
    /\ tpc[t] = "rank" /\ Runs(t)
    /\ tpc' = [tpc EXCEPT ![t] = "failed"]
    /\ UNCHANGED <<mgr, client, hpc, error, nrecv, researcher, tres, tidx, tnew, tpages,
                   tblk, done_order, emitted, last_write, run_result>>
    /\ UNCHANGED history
    /\ UNCHANGED channel_log

\* Mutant of TaskReturn: the task returns once the ranking is announced,
\* without the ranker's block and without the excerpt message.
TaskReturnBeforeExcerpt(t) ==
    /\ tpc[t] = "rank"
    /\ tpc' = [tpc EXCEPT ![t] = "done"]
    /\ done_order' = Append(done_order, t)
    /\ UNCHANGED <<mgr, client, hpc, error, nrecv, researcher, tres, tidx, tnew, tpages,
                   tblk, emitted, last_write, run_result>>
    /\ UNCHANGED history
    /\ UNCHANGED channel_log

\* process_sub_query line 149.
TaskReturn(t) ==
    /\ tpc[t] = "return"
    /\ tpc' = [tpc EXCEPT ![t] = "done"]
    /\ done_order' = Append(done_order, t)
    /\ UNCHANGED <<mgr, client, hpc, error, nrecv, researcher, tres, tidx, tnew, tpages,
                   tblk, emitted, last_write, run_result>>
    /\ UNCHANGED history
    /\ UNCHANGED channel_log

\* run() lines 65-66: choose_agent, then the agent log.
ChooseAgent ==
    /\ hpc = "choose_agent" /\ LoopFree
    /\ message_queues' = stream_output(message_queues, Msg("logs"))
    /\ hpc' = "get_context"
    /\ UNCHANGED <<active_connections, sender_tasks, sender, sending, client, error, nrecv,
                   researcher, gathers, last_write, run_result>>
    /\ milestones' = Append(milestones, "role")
    /\ UNCHANGED <<handed, requested, evictions, scraped_before>>
    /\ UNCHANGED channel_log

ChooseAgentFail ==
    /\ hpc = "choose_agent" /\ LoopFree
    /\ RunRaises("CollaboratorError")
    /\ UNCHANGED <<client, nrecv, researcher, gathers, last_write>>
    /\ UNCHANGED history
    /\ UNCHANGED channel_log

\* run() line 70, get_context_by_urls line 112: get_new_urls(source_urls),
\* in the handler task, up to its first send.
GetContextByUrls ==
    /\ hpc = "get_context"
    /\ source_urls # <<>>
    /\ Scan(0, source_urls, 1, visited_urls)
    /\ hpc' = "by_urls"
    /\ UNCHANGED <<active_connections, sender_tasks, sender, sending, client, error, nrecv,
                   researcher, tnew, tpages, tblk, done_order, last_write, run_result>>
    /\ requested' = [requested EXCEPT ![0] = {source_urls[i] : i \in 1 .. Len(source_urls)}]
    /\ UNCHANGED <<handed, evictions, milestones, scraped_before>>
    /\ UNCHANGED channel_log

\* get_context_by_search line 127: the generated sub-queries, then the query.
SubQueryList(n) == [i \in 1 .. (n + 1) |-> IF i <= n THEN i ELSE 0]

\* Mutant of GatherResult: the results in the order the tasks completed.
GatherResultAsCompleted(blocks, order, n) == [i \in 1 .. n |-> blocks[order[i]]]

\* asyncio.gather(*aws): the results in the order of aws.
GatherResult(blocks, order, n) == [i \in 1 .. n |-> blocks[i]]

\* run() line 72, get_context_by_search lines 127-130: the sub-queries and
\* the log that announces them.
GetSubQueries ==
    /\ hpc = "get_context" /\ LoopFree
    /\ source_urls = <<>>
    /\ \E n \in SubQueryCounts : sub_queries' = SubQueryList(n)
    /\ message_queues' = stream_output(message_queues, Msg("logs"))
    /\ hpc' = "sub_queries"
    /\ UNCHANGED <<active_connections, sender_tasks, sender, sending, client, error, nrecv,
                   cfg, source_urls, visited_urls, context, gathers, last_write,
                   run_result>>
    /\ UNCHANGED history
    /\ UNCHANGED channel_log

\* get_context_by_search line 133: one process_sub_query task per entry of
\* sub_queries; the handler waits for them.
GatherTasks ==
    /\ hpc = "sub_queries"
    /\ tpc' = [t \in Tasks |-> IF t \in 1 .. Len(sub_queries) THEN "start" ELSE "none"]
    /\ hpc' = "gather"
    /\ UNCHANGED <<mgr, client, error, nrecv, researcher, tres, tidx, tnew, tpages,
                   tblk, done_order, emitted, last_write, run_result>>
    /\ UNCHANGED history
    /\ UNCHANGED channel_log

GetSubQueriesFail ==
    /\ hpc = "get_context" /\ LoopFree
    /\ source_urls = <<>>
    /\ RunRaises("CollaboratorError")
    /\ UNCHANGED <<client, nrecv, researcher, gathers, last_write>>
    /\ UNCHANGED history
    /\ UNCHANGED channel_log

\* Mutant of AllGathered: the await returns with the first finished task.
FirstGathered == \E t \in 1 .. Len(sub_queries) : tpc[t] = "done"

\* The await of line 133 returns once every task is done.
AllGathered == \A t \in 1 .. Len(sub_queries) : tpc[t] = "done"

\* run() line 72 stores the gathered list and line 77 announces the report.
GatherDone ==
    /\ hpc = "gather" /\ LoopFree
    /\ AllGathered
    /\ context' = GatherResult(tblk, done_order, Len(sub_queries))
    /\ message_queues' = stream_output(message_queues, Msg("logs"))
    /\ hpc' = "budget"
    /\ UNCHANGED <<active_connections, sender_tasks, sender, sending, client, error, nrecv,
                   cfg, source_urls, visited_urls, sub_queries, gathers, last_write,
                   run_result>>
    /\ milestones' = Append(milestones, "gathered")
    /\ UNCHANGED <<handed, requested, evictions, scraped_before>>
    /\ UNCHANGED channel_log

\* get_context_by_urls line 117 returns the ranker's excerpts; lines 70, 77.
UrlsDone ==
    /\ hpc = "by_urls"
    /\ tpc[0] = "done"
    /\ context' = [i \in 1 .. tblk[0].w |-> [query |-> 0, w |-> 0]]
    /\ message_queues' = stream_output(message_queues, Msg("logs"))
    /\ hpc' = "budget"
    /\ UNCHANGED <<active_connections, sender_tasks, sender, sending, client, error, nrecv,
                   cfg, source_urls, visited_urls, sub_queries, gathers, last_write,
                   run_result>>
    /\ milestones' = Append(milestones, "gathered")
    /\ UNCHANGED <<handed, requested, evictions, scraped_before>>
    /\ UNCHANGED channel_log

\* Mutant of GatherFail: the exception of a task reaches run() while other
\* tasks of the gather have not run yet.
GatherFailEarly ==
    /\ hpc \in {"gather", "by_urls"}
    /\ \E t \in Tasks : tpc[t] = "failed"
    /\ RunRaises("CollaboratorError")
    /\ UNCHANGED <<client, nrecv, researcher, gathers, last_write>>
    /\ UNCHANGED history
    /\ UNCHANGED channel_log

\* The first exception of a task is raised by the await of line 133; the
\* other tasks are not cancelled.  The tasks of the gather were made ready
\* together, before the handler is made ready again by the first of them
\* that ends, and none of them suspends: every one of them has returned or
\* raised when the handler runs again.  In url mode the ranker's exception
\* is the handler's own.
GatherFail ==
    /\ hpc \in {"gather", "by_urls"}
    /\ \E t \in Tasks : tpc[t] = "failed"
    /\ \A t \in SubTasks : tpc[t] \in {"none", "done", "failed"}
    /\ RunRaises("CollaboratorError")
    /\ UNCHANGED <<client, nrecv, researcher, gathers, last_write>>
    /\ UNCHANGED history
    /\ UNCHANGED channel_log

\* Mutant of context_token_limit: the buffer is not set aside.
context_token_limit_NoBuffer ==
    Min(smart_token_max - cfg.total_words * 2, cfg.prompt_token_limit)

\* run() lines 81-84.
context_token_limit ==
    Min(smart_token_max - cfg.total_words * 2, cfg.prompt_token_limit) - buffer_tokens

\* run() lines 88-90, one turn of the loop: pop a random block.
BudgetEvict ==
    /\ hpc = "budget"
    /\ count_tokens(context) > context_token_limit
    /\ context # <<>>
    /\ \E i \in 1 .. Len(context) : context' = RemoveAt(context, i)
    /\ UNCHANGED <<mgr, client, hpc, error, nrecv, cfg, source_urls, visited_urls,
                   sub_queries, gathers, last_write, run_result>>
    /\ evictions' = evictions + 1
    /\ UNCHANGED <<handed, requested, milestones, scraped_before>>
    /\ UNCHANGED channel_log

\* run() line 90 on an empty list: random.randrange(0) raises ValueError.
BudgetRaise ==
    /\ hpc = "budget"
    /\ count_tokens(context) > context_token_limit
    /\ context = <<>>
    /\ RunRaises("ValueError")
    /\ UNCHANGED <<client, nrecv, researcher, gathers, last_write>>
    /\ UNCHANGED history
    /\ UNCHANGED channel_log

\* run() lines 88, 91-92: the loop ends and generate_report is called.
BudgetExit ==
    /\ hpc = "budget"
    /\ ~(count_tokens(context) > context_token_limit)
    /\ hpc' = "generate"
    /\ UNCHANGED <<mgr, client, error, nrecv, researcher, gathers, last_write, run_result>>
    /\ milestones' = Append(milestones, "budgeted")
    /\ UNCHANGED <<handed, requested, evictions, scraped_before>>
    /\ UNCHANGED channel_log

\* run() lines 92-106: the report, the usage message, return.
Generate ==
    /\ hpc = "generate" /\ LoopFree
    /\ message_queues' = stream_output(message_queues, Msg("usage"))
    /\ hpc' = "total_time"
    /\ UNCHANGED <<active_connections, sender_tasks, sender, sending, client, error, nrecv,
                   researcher, gathers, last_write, run_result>>
    /\ milestones' = milestones \o <<"report", "usage">>
    /\ UNCHANGED <<handed, requested, evictions, scraped_before>>
    /\ UNCHANGED channel_log

GenerateFail ==
    /\ hpc = "generate" /\ LoopFree
    /\ RunRaises("CollaboratorError")
    /\ UNCHANGED <<client, nrecv, researcher, gathers, last_write>>
    /\ UNCHANGED history
    /\ UNCHANGED channel_log

\* What websocket.send_json raises when the peer is gone: the websocket
\* library's disconnect exception or another error, depending on its version.
SendErrors == {"WebSocketDisconnect", "RuntimeError"}

\* run_agent returns: its local researcher, and the finished tasks' results
\* with it, are no longer referenced.
ResearcherGone ==
    /\ cfg' = [prompt_token_limit |-> 10000, total_words |-> 1000]
    /\ source_urls' = <<>>
    /\ visited_urls' = {}
    /\ context' = <<>>
    /\ sub_queries' = <<>>
    /\ tpc' = [t \in Tasks |-> "none"]
    /\ tblk' = [t \in Tasks |-> NoBlock]
    /\ done_order' = <<>>
    /\ emitted' = [t \in Tasks |-> <<>>]
    /\ UNCHANGED <<tres, tidx, tnew, tpages>>

\* run_agent lines 84-86: websocket.send_json of the run time, return report.
TotalTime ==
    /\ hpc = "total_time" /\ LoopFree
    /\ client = "open"
    /\ last_write' = <<"run_agent", Msg("logs")>>
    /\ run_result' = "report"
    /\ hpc' = "pdf"
    /\ ResearcherGone
    /\ UNCHANGED <<mgr, client, error, nrecv>>
    /\ milestones' = Append(milestones, "total_time")
    /\ UNCHANGED <<handed, requested, evictions, scraped_before>>
    /\ UNCHANGED channel_log

\* run_agent line 84 on a closed peer: send_json raises and the exception
\* leaves run_agent.  WebSocketDisconnect is caught by websocket_endpoint
\* (line 65): the exception is dropped there and run_agent's local researcher
\* with it.  Any other exception ends the handler task, which keeps it, and
\* through its traceback run_agent's frame and the researcher, as after the
\* failure of any other step of the run.
TotalTimeFail ==
    /\ hpc = "total_time" /\ LoopFree
    /\ client = "gone"
    /\ \E exc \in SendErrors :
          /\ RunRaises(exc)
          /\ IF exc = "WebSocketDisconnect"
             THEN ResearcherGone
             ELSE UNCHANGED <<researcher, gathers>>
    /\ UNCHANGED <<client, nrecv, last_write>>
    /\ UNCHANGED history
    /\ UNCHANGED channel_log

\* server.py line 57.
WritePdf ==
    /\ hpc = "pdf" /\ LoopFree
    /\ hpc' = "docx"
    /\ UNCHANGED <<mgr, client, error, nrecv, researcher, gathers, last_write, run_result>>
    /\ milestones' = Append(milestones, "pdf")
    /\ UNCHANGED <<handed, requested, evictions, scraped_before>>
    /\ UNCHANGED channel_log

\* server.py line 59.
WriteDocx ==
    /\ hpc = "docx" /\ LoopFree
    /\ hpc' = "path"
    /\ UNCHANGED <<mgr, client, error, nrecv, researcher, gathers, last_write, run_result>>
    /\ milestones' = Append(milestones, "docx")
    /\ UNCHANGED <<handed, requested, evictions, scraped_before>>
    /\ UNCHANGED channel_log

\* server.py line 61: websocket.send_json of the paths, then the loop on.
SendPath ==
    /\ hpc = "path" /\ LoopFree
    /\ client = "open"
    /\ last_write' = <<"websocket_endpoint", Msg("path")>>
    /\ hpc' = "receive"
    /\ UNCHANGED <<mgr, client, error, nrecv, researcher, gathers, run_result>>
    /\ milestones' = Append(milestones, "path")
    /\ UNCHANGED <<handed, requested, evictions, scraped_before>>
    /\ UNCHANGED channel_log

SendPathFail ==
    /\ hpc = "path" /\ LoopFree
    /\ client = "gone"
    /\ \E exc \in SendErrors : HandlerRaises(exc)
    /\ UNCHANGED <<client, nrecv, researcher, gathers, last_write, run_result>>
    /\ UNCHANGED history
    /\ UNCHANGED channel_log

Next ==
    \/ Connect
    \/ ClientDisconnect
    \/ SenderStep
    \/ SenderWrite
    \/ RecvDisconnect
    \/ RecvOther
    \/ RecvBadJson
    \/ RecvNotObject
    \/ RecvIncomplete
    \/ RecvStart
    \/ RunAgent
    \/ ChooseAgent
    \/ ChooseAgentFail
    \/ GetContextByUrls
    \/ GetSubQueries
    \/ GetSubQueriesFail
    \/ GatherTasks
    \/ \E t \in SubTasks : TaskStart(t)
    \/ \E t \in SubTasks : TaskSearch(t)
    \/ \E t \in SubTasks : TaskSearchFail(t)
    \/ \E t \in Tasks : TaskAdd(t)
    \/ \E t \in Tasks : TaskScrape(t)
    \/ \E t \in Tasks : TaskRank(t)
    \/ \E t \in Tasks : TaskRankFail(t)
    \/ \E t \in SubTasks : TaskReturn(t)
    \/ GatherDone
    \/ UrlsDone
    \/ GatherFail
    \/ BudgetEvict
    \/ BudgetRaise
    \/ BudgetExit
    \/ Generate
    \/ GenerateFail
    \/ TotalTime
    \/ TotalTimeFail
    \/ WritePdf
    \/ WriteDocx
    \/ SendPath
    \/ SendPathFail

Spec == Init /\ [][Next]_vars

\* ------------------------------------------------------------ channel model
\* The WebSocketManager on its own: connect, disconnect and the sender task,
\* driven by producers that send arbitrary messages and by callers that
\* connect and disconnect ws in any order (ws connected at most once at a
\* time).  The history of the current connection is recorded: the messages
\* put on its queue, the messages its sender task wrote, the disconnect
\* calls, the sends that put nothing on the queue.
program == <<hpc, error, nrecv, researcher, gathers, run_result, history>>

\* connect(ws) while ws is not connected: a new queue and a new sender task.
ChannelConnect ==
    /\ ~InSeq(ws, active_connections)
    /\ client = "open"
    /\ connect
    /\ enqueued' = <<>>
    /\ written' = <<>>
    /\ disconnects' = 0
    /\ dropped' = 0
    /\ UNCHANGED <<client, last_write, program>>

\* disconnect(ws), by any caller at any time.
ChannelDisconnect ==
    /\ disconnects < MaxDisconnects
    /\ disconnect
    /\ disconnects' = disconnects + 1
    /\ UNCHANGED <<client, last_write, enqueued, written, dropped, program>>

\* A producer sends message m on the channel of ws.
ChannelSend(m) ==
    /\ Len(enqueued) + dropped < MaxSends
    /\ message_queues' = stream_output(message_queues, m)
    /\ enqueued' = IF message_queues' # message_queues THEN Append(enqueued, m) ELSE enqueued
    /\ dropped' = IF message_queues' # message_queues THEN dropped ELSE dropped + 1
    /\ UNCHANGED <<active_connections, sender_tasks, sender, sending, client, last_write,
                   written, disconnects, program>>

\* The sender task takes a message.
ChannelSender ==
    /\ start_sender
    /\ UNCHANGED <<active_connections, sender_tasks, client, last_write, channel_log,
                   program>>

\* The sender task's write completes or fails; a written message is recorded.
ChannelSenderWrite ==
    /\ send_text
    /\ written' = IF sender' = "running" THEN Append(written, sending[1]) ELSE written
    /\ UNCHANGED <<active_connections, sender_tasks, message_queues, client, enqueued,
                   disconnects, dropped, program>>

\* The peer of ws goes away.
ChannelPeerGone ==
    /\ client = "open"
    /\ InSeq(ws, active_connections)
    /\ client' = "gone"
    /\ UNCHANGED <<mgr, last_write, channel_log, program>>

NextChannel ==
    \/ ChannelConnect
    \/ ChannelDisconnect
    \/ \E m \in ChannelMessages : ChannelSend(m)
    \/ ChannelSender
    \/ ChannelSenderWrite
    \/ ChannelPeerGone

SpecChannel == Init /\ [][NextChannel]_vars

\* ================================================================ claims
\* No get_new_urls call of the run is between its first and last step.
AllCallsReturned == \A t \in Tasks : tpc[t] \notin {"start", "search", "add"}

\* C1: over the concurrent process_sub_query tasks of one run, get_new_urls
\* hands every url to at most one caller, and once all calls have returned
\* every url any call was given has been handed out exactly once.
C1_AdmitOnce ==
    \A u \in URLS :
        /\ handed[u] <= 1
        /\ AllCallsReturned => (handed[u] = 1 <=> \E t \in Tasks : u \in requested[t])

\* C1 witness: both gather tasks of a run have returned, the searches of both
\* named u1 and both named u2, and each url was handed out once.
C1_Witness ==
    /\ \A t \in SubTasks : tpc[t] = "done" /\ requested[t] = URLS
    /\ \A u \in URLS : handed[u] = 1

\* C2: every write on the websocket is made by the connection's sender task.
C2_OnlySenderWrites ==
    last_write # <<>> => last_write[1] = "sender"

\* C3: for every token limit >= 0 the budgeting loop ends without raising,
\* and when it has ended the context is empty or fits the limit.
C3_BudgetConverges ==
    context_token_limit >= 0 =>
        /\ error # "ValueError"
        /\ hpc = "generate" => (context = <<>> \/ count_tokens(context) <= context_token_limit)

\* C4: when the budgeting loop has popped every block the run does not fail
\* in budgeting (it goes on to generate_report with the empty context).
C4_EmptyContextProceeds ==
    (evictions > 0 /\ context = <<>>) => error # "ValueError"

C6_DisconnectKeepsOutcome ==
    ~(run_result = "raised" /\ error \in SendErrors)

\* C7: in search mode the gather tasks are dispatched for q1..qN and then the
\* original query, and the merged context holds, at position i, the block the
\* i-th dispatched sub-query produced, whatever the order of completion.
C7_ContextInDispatchOrder ==
    /\ hpc \in {"sub_queries", "gather"} =>
          /\ sub_queries[Len(sub_queries)] = 0
          /\ \A i \in 1 .. (Len(sub_queries) - 1) : sub_queries[i] = i
    /\ hpc = "gather" =>
          \A t \in SubTasks : (tpc[t] # "none") <=> (t <= Len(sub_queries))
    /\ (hpc = "budget" /\ evictions = 0 /\ sub_queries # <<>>) =>
          /\ Len(context) = Len(sub_queries)
          /\ \A i \in 1 .. Len(context) :
                context[i] = tblk[i] /\ context[i].query = sub_queries[i]

\* C7 witness: two gathers completed in the reverse of the dispatch order.
C7_Witness ==
    /\ hpc = "budget" /\ evictions = 0
    /\ done_order = <<2, 1>>
    /\ Len(context) = 2 /\ context[1].query = 1 /\ context[2].query = 0

\* The steps of a run in the order of the code.
RunOrder == <<"role", "gathered", "budgeted", "report", "usage", "total_time",
              "pdf", "docx", "path">>

IsPrefix(a, b) == Len(a) <= Len(b) /\ \A i \in 1 .. Len(a) : a[i] = b[i]

\* The stage of the run the handler is in.
Stage ==
    CASE hpc = "init" -> "Init"
      [] hpc = "choose_agent" -> "RoleSelection"
      [] hpc \in {"get_context", "by_urls", "sub_queries", "gather"} -> "ContextGathering"
      [] hpc = "budget" -> "Budgeting"
      [] hpc \in {"generate", "total_time"} -> "ReportGeneration"
      [] hpc \in {"pdf", "docx", "path"} -> "Exporting"
      [] hpc = "receive" -> "Done"
      [] hpc \in {"crashed", "closed"} -> "Error"
      [] OTHER -> "Connecting"

StageOrder == <<"Init", "RoleSelection", "ContextGathering", "Budgeting",
                "ReportGeneration", "Exporting", "Done">>

StageSucc(a, b) ==
    \/ \E i \in 1 .. (Len(StageOrder) - 1) : a = StageOrder[i] /\ b = StageOrder[i + 1]
    \/ a = "Done" /\ b = "Init"
    \/ a = "Connecting" /\ b = "Done"

\* C8: the stages follow one another in the fixed order, budgeting starts
\* only when every gather task is done, the run's events (usage after the
\* report, path after usage and both exports) happen in the order of the
\* code, and after a failure no further stage or event follows.
C8_StageOrder ==
    [][ /\ Stage' = Stage \/ StageSucc(Stage, Stage') \/ Stage' = "Error"
        /\ Stage = "Error" => (Stage' = "Error" /\ milestones' = milestones)
        /\ IsPrefix(milestones', RunOrder)
        /\ (Stage' = "Budgeting" /\ Stage # "Budgeting") =>
              \A t \in Tasks : tpc'[t] \in {"none", "done"}
      ]_vars

\* C8 witness: a run that went through every stage.
C8_Witness == hpc = "receive" /\ milestones = RunOrder

\* A message of type error is waiting on the queue or was the latest write.
ErrorMessageSent ==
    \/ last_write # <<>> /\ last_write[2][1] = "error"
    \/ /\ ws \in DOMAIN message_queues
       /\ \E i \in 1 .. Len(message_queues[ws]) : message_queues[ws][i][1] = "error"

\* C9: a collaborator failure that ends the run is surfaced to the caller
\* of the run and an error message is sent to the client.
C9_ErrorSurfacedAndSent ==
    error = "CollaboratorError" => (run_result = "raised" /\ ErrorMessageSent)

\* C10: when the connection handler has ended, by a client disconnect or by
\* the exception of a failed run, the session is closed: ws is in none of the
\* manager's collections and its sender task is not running.
C10_HandlerEndClosesSession ==
    (hpc = "closed" \/ (hpc = "crashed" /\ run_result = "raised")) =>
        /\ ~InSeq(ws, active_connections)
        /\ ws \notin sender_tasks
        /\ ws \notin DOMAIN message_queues
        /\ sender # "running"

\* C11: once disconnect(ws) has been called the connection's sender task is
\* not running and writes nothing more (what was waiting on the queue is not
\* delivered), and a further disconnect(ws) leaves the manager as it is.
C11_DisconnectIdempotent ==
    [][ /\ disconnects >= 1 /\ disconnects' >= 1 =>
              (sender # "running" /\ written' = written /\ last_write' = last_write)
        /\ (disconnects >= 1 /\ disconnects' = disconnects + 1) => UNCHANGED mgr
      ]_vars

\* C11 witness: disconnect was called twice on a connection whose queue held
\* an undelivered message at the first call; the message was never written.
C11_Witness ==
    /\ disconnects = 2
    /\ sender = "cancelled"
    /\ Len(written) < Len(enqueued)
    /\ written # <<>>

\* C18: after any sequence of connect and disconnect calls (ws connected at
\* most once at a time) ws is in active_connections exactly when it has a
\* sender_tasks entry and a message_queues entry, and it is there once.
C18_BookkeepingConsistent ==
    /\ InSeq(ws, active_connections) <=> ws \in sender_tasks
    /\ InSeq(ws, active_connections) <=> ws \in DOMAIN message_queues
    /\ Cardinality({i \in 1 .. Len(active_connections) : active_connections[i] = ws}) <= 1

\* C18 witness: ws was connected, disconnected and connected again: its
\* earlier connection wrote a message, the current one has written none.
C18_Witness ==
    /\ InSeq(ws, active_connections)
    /\ last_write # <<>>
    /\ written = <<>>
    /\ enqueued # <<>>

\* C17: what the sender task has written is always a prefix of what was put
\* on the connection's queue; a message the task took is either written next
\* or, when ws is no longer active or the write fails, dropped with the task
\* ending; and a sender task that has ended writes nothing more.
C17_SenderFifoPrefix ==
    [][ /\ IsPrefix(written', enqueued')
        /\ (/\ sender = "running" /\ ws \in DOMAIN message_queues
            /\ ws \in DOMAIN message_queues'
            /\ Len(message_queues'[ws]) < Len(message_queues[ws])
            /\ ~InSeq(ws, active_connections))
              => (sender' = "finished" /\ written' = written /\ last_write' = last_write)
        /\ (sending # <<>> /\ sending' = <<>>) =>
              \/ /\ client = "open" /\ sender' = "running"
                 /\ written' = Append(written, sending[1])
                 /\ written' = SubSeq(enqueued, 1, Len(written'))
              \/ /\ sender' = "finished"
                 /\ written' = written /\ last_write' = last_write
        /\ sender = "finished" =>
              \/ sender' = "finished" /\ written' = written /\ last_write' = last_write
              \/ sender' = "running" /\ written' = <<>> /\ enqueued' = <<>>
      ]_vars

\* C17 witness: the sender task wrote two different messages in the order
\* they were sent and ended on the third, which it did not write.
C17_Witness ==
    /\ sender = "finished"
    /\ Len(written) = 2 /\ written[1] # written[2]
    /\ Len(enqueued) = 3
    /\ \A i \in 1 .. 2 : written[i] = enqueued[i]

\* C12: a client message that does not start a run (text not beginning with
\* start, a malformed start payload, a payload without task or report_type)
\* is ignored: the handler is back at receive, nothing is sent, no error.
C12_BadCommandIgnored ==
    [][(nrecv' = nrecv + 1 /\ hpc' # "init") =>
           (hpc' = "receive" /\ error' = error /\ UNCHANGED <<mgr, last_write>>)]_vars

\* C13: when generate_report is called the context is empty or
\* count_tokens(str(context)) + 512 <= min(smart_token_max - 2 * total_words,
\* prompt_token_limit) <= prompt_token_limit.
C13_BudgetBound ==
    hpc = "generate" =>
        \/ context = <<>>
        \/ /\ count_tokens(context) + buffer_tokens
                 <= Min(smart_token_max - 2 * cfg.total_words, cfg.prompt_token_limit)
           /\ Min(smart_token_max - 2 * cfg.total_words, cfg.prompt_token_limit)
                 <= cfg.prompt_token_limit

\* C13 witness: budgeting popped a block and what is left fits the budget.
C13_Witness ==
    hpc = "generate" /\ evictions > 0 /\ context # <<>>

\* The urls of s at their first occurrence, in the order of s.
RECURSIVE FirstOccurrences(_)
FirstOccurrences(s) ==
    IF s = <<>> THEN <<>>
    ELSE LET r == FirstOccurrences(SubSeq(s, 1, Len(s) - 1))
         IN  IF InSeq(s[Len(s)], r) THEN r ELSE Append(r, s[Len(s)])

\* a can be obtained from b by dropping elements.
IsSubsequence(a, b) ==
    \E f \in [1 .. Len(a) -> 1 .. Len(b)] :
        /\ \A i \in 1 .. Len(a) : a[i] = b[f[i]]
        /\ \A i, j \in 1 .. Len(a) : i < j => f[i] < f[j]

\* C14: the list a get_new_urls call builds never holds a url twice and keeps
\* the order of its input; in url mode the call on the seed list returns each
\* seed url once, at its first occurrence, marks it visited and hands it to
\* the scraper once.
C14_UrlModeDedup ==
    /\ \A t \in Tasks :
          /\ \A i, j \in 1 .. Len(tnew[t]) : i < j => tnew[t][i] # tnew[t][j]
          /\ tpc[t] = "add" => IsSubsequence(tnew[t], SubSeq(tres[t], 1, tidx[t] - 1))
    /\ (hpc = "by_urls" /\ tpc[0] = "scrape") =>
          /\ tnew[0] = FirstOccurrences(source_urls)
          /\ visited_urls = {source_urls[i] : i \in 1 .. Len(source_urls)}
          /\ \A u \in URLS : handed[u] = IF u \in visited_urls THEN 1 ELSE 0

\* C14 witness: the call on a seed list naming u1 twice has returned <<u1>>.
C14_Witness ==
    /\ hpc = "by_urls" /\ tpc[0] = "scrape"
    /\ source_urls = <<"u1", "u1">>
    /\ tnew[0] = <<"u1">>

\* C15: a url get_new_urls returned in an earlier run of the connection is
\* not returned again by a later run of the same connection.
C15_SessionDedup ==
    \A u \in URLS : handed[u] > 0 => u \notin scraped_before

\* The place of a message in the program order of process_sub_query.
EmitRank(k) ==
    CASE k = "running" -> 1
      [] k = "adding" -> 2
      [] k = "researching" -> 3
      [] k = "ranking" -> 4
      [] k = "excerpt" -> 5

\* s is a beginning of: running, adding (any number), researching, ranking,
\* excerpt.
EmitOrderOK(s) ==
    \A i \in 1 .. Len(s) :
        IF i = 1 THEN s[1] = "running"
        ELSE \/ EmitRank(s[i]) = EmitRank(s[i - 1]) + 1
             \/ s[i] = "adding" /\ s[i - 1] = "adding"
             \/ s[i] = "researching" /\ s[i - 1] = "running"

\* C16: under every interleaving each gather task sends its messages in the
\* order of its code; it sends the excerpt message in a step in which the
\* ranker's block for its sub-query is assembled and the task has not yet
\* returned, and it returns that block only after the excerpt message.
C16_GatherEmissionOrder ==
    [][\A t \in SubTasks :
          /\ EmitOrderOK(emitted'[t])
          /\ (Len(emitted'[t]) = Len(emitted[t]) + 1
                 /\ emitted'[t][Len(emitted'[t])] = "excerpt") =>
                 /\ tblk'[t] # NoBlock /\ tblk'[t].query = sub_queries[t]
                 /\ tpc'[t] = "return" /\ ~InSeq(t, done_order')
          /\ (InSeq(t, done_order') /\ ~InSeq(t, done_order)) =>
                 /\ emitted[t] # <<>> /\ emitted[t][Len(emitted[t])] = "excerpt"
                 /\ emitted'[t] = emitted[t]
                 /\ tblk'[t] = tblk[t] /\ tblk[t] # NoBlock
      ]_vars

\* C16 witness: two gathers of a run have returned, the later dispatched
\* first; one of them sent all its messages, two admissions included.
C16_Witness ==
    \E t, o \in SubTasks :
        /\ t # o
        /\ tpc[t] = "done" /\ tpc[o] = "done"
        /\ done_order[1] > done_order[2]
        /\ emitted[t] = <<"running", "adding", "adding", "researching", "ranking", "excerpt">>
        /\ emitted[o] # <<>> /\ emitted[o][Len(emitted[o])] = "excerpt"

\* C19: the handler reads a client message only at its receive position,
\* with no run in progress: the run before, if any, went through every step
\* up to the path message and none of its gather tasks is left.
C19_RunsSerialized ==
    [][nrecv' # nrecv =>
           /\ hpc = "receive"
           /\ milestones \in {<<>>, RunOrder}
           /\ \A t \in Tasks : tpc[t] = "none"]_vars

\* C19 witness: a second start command was read after a complete first run.
C19_Witness ==
    hpc = "init" /\ nrecv = 2 /\ milestones = RunOrder

\* C20: once the failure of a gather task has ended the run, no gather task
\* of that run admits a url or sends a message.
C20_NoSiblingAfterFailure ==
    [][(/\ hpc = "crashed" /\ run_result = "raised"
        /\ \E t \in SubTasks : tpc[t] = "failed") =>
           (visited_urls' = visited_urls /\ emitted' = emitted)]_vars

\* C20 witness: the run was ended by the failure of one gather task; its
\* sibling had admitted a url, sent all its messages and returned before the
\* failure reached run().
C20_Witness ==
    /\ hpc = "crashed" /\ run_result = "raised"
    /\ \E t, o \in SubTasks :
          /\ tpc[t] = "failed"
          /\ tpc[o] = "done"
          /\ InSeq("adding", emitted[o])
          /\ emitted[o][Len(emitted[o])] = "excerpt"
====
